---- MODULE Spec2Model ----
(***************************************************************************)
(* A model of sghi-etl-commons: the composite roles (GatherSource,         *)
(* ScatterGatherProcessor, SplitGatherProcessor, ScatterSink, SplitSink),  *)
(* the units of work they submit to a thread pool, and the result          *)
(* gatherers (fail_fast, fail_fast_factory, ignored_failed).               *)
(*                                                                         *)
(* Spec       : one composite, its caller thread and the pool's workers.   *)
(* SpecGather : the result gatherers called directly on a collection of    *)
(*              handles, as result_gatherers_tests.py does.                *)
(***************************************************************************)
EXTENDS Integers, Sequences, FiniteSets, TLC

\* ------------------------------------------------------------------ bounds
NumRoles == 2       \* embedded roles of the composite
MaxCalls == 2       \* draw/apply/drain calls the caller makes on one composite
MaxFutures == 3     \* handles given to a gatherer that is called directly
MaxRegistered == 2  \* sources, processors and sinks registered on one WorkflowBuilder
MaxBuilds == 2      \* build() calls on one WorkflowBuilder

Roles == 1..NumRoles
\* Worker threads of the pool executor_factory returns: as many as one call
\* has units, so that the units of two calls in flight queue.
PoolSize == NumRoles
\* The data the roles draw, process and drain: two tokens, which the
\* composites and the gatherers pass on and never compute with.
Values == {0, 1}

\* ------------------------------------------------------------------ state
VARIABLES
    kind,           \* which composite class was constructed
    policy,         \* what its retry_policy_factory returns
    is_disposed,    \* composite._is_disposed
    role_disposed,  \* is_disposed of every embedded role
    stack_open,     \* composite._exit_stack still holds the roles' __exit__
    exec_disposed,  \* composite._executor.is_disposed (the ConcurrentExecutor)
    futures,        \* the handles of the last call and those the pool has yet to finish
    calls,          \* draw/apply/drain calls made so far
    arg,            \* the argument of the call in progress or last made
    pc,             \* where the caller thread is
    gpos,           \* the gatherer's iterator: handles examined so far
    gout,           \* the values the iterator has yielded
    consumed,       \* indexes of the handles whose result() was read
    outcome,        \* how the last call ended
    gfn,            \* the gatherer: the composite's result_gatherer, or the one called
    gfactory,       \* the gatherer's exc_wrapper_factory argument
    gmsg,           \* the gatherer's exc_wrapper_message argument
    giterable,      \* whether the gatherer's futures argument is an Iterable
    cargs,          \* the arguments a composite's constructor is called with
    registered,     \* the embedded roles pushed onto the constructor's exit stack
    factory_calls,  \* how often the constructor invoked executor_factory
    passed,         \* the caller's sequence object that was passed to the constructor
    own,            \* the composite's own tuple of embedded roles (and of their tasks)
    wscript,        \* run_workflow: its arguments and what each operation does when invoked
    wpc,            \* run_workflow: where it is
    wlog,           \* run_workflow: what it has invoked so far, in order
    wmade,          \* run_workflow: the components it created and entered
    werr,           \* run_workflow: the exception on its way to the caller
    wval,           \* run_workflow: the value the last of draw/apply returned
    bentries,       \* WorkflowBuilder: what was registered, in registration order
    blists,         \* WorkflowBuilder: _source_factories, _processor_factories, _sink_factories
    bretrieved,     \* WorkflowBuilder: the once-only factories whose value was retrieved
    bdefs,          \* WorkflowBuilder: the definitions build() returned
    bbuilds,        \* WorkflowBuilder: build() calls made
    bop,            \* WorkflowBuilder: the last operation on it
    bcomposite      \* WorkflowBuilder: the composite factory of each kind

confVars == <<kind, policy>>
compVars == <<is_disposed, role_disposed, stack_open, exec_disposed, calls, arg>>
iterVars == <<gpos, gout, consumed>>
gathVars == <<gfn, gfactory, gmsg, giterable>>
ctorVars == <<cargs, registered, factory_calls, passed, own>>
wfVars == <<wscript, wpc, wlog, wmade, werr, wval>>
bldVars == <<bentries, blists, bretrieved, bdefs, bbuilds, bop, bcomposite>>
auxVars == <<ctorVars, wfVars, bldVars>>
vars == <<confVars, compVars, futures, pc, iterVars, outcome, gathVars, auxVars>>

\* ------------------------------------------------------------ vocabulary
Sources == {"GatherSource"}
Processors == {"ScatterGatherProcessor", "SplitGatherProcessor"}
Sinks == {"ScatterSink", "SplitSink"}
SplitKinds == {"SplitGatherProcessor", "SplitSink"}
\* ProcessorPipe: the embedded processors run one after the other on the
\* caller's thread; it has no executor and no result gatherer.
Pipes == {"ProcessorPipe"}
Kinds == Sources \cup Processors \cup Sinks \cup Pipes
Gatherers == {"fail_fast", "fail_fast_factory", "ignored_failed"}
Policies == {"noop_retry", "retry_once"}

NoExc == [type |-> "none", of |-> 0, msg |-> "", cause |-> "none", origin |-> 0]
RoleError(i) == [type |-> "RoleError", of |-> i, msg |-> "", cause |-> "none", origin |-> 0]
ResourceDisposedError(i) == [type |-> "ResourceDisposedError", of |-> i, msg |-> "", cause |-> "none", origin |-> 0]
CancelledError(i) == [type |-> "CancelledError", of |-> i, msg |-> "", cause |-> "none", origin |-> 0]
TypeError == [type |-> "TypeError", of |-> 0, msg |-> "", cause |-> "none", origin |-> 0]
\* ensure_predicate's message names the expected and the actual size
SizeError(n, m) == [type |-> "ValueError", of |-> n, msg |-> "size", cause |-> "none", origin |-> m]
ValueError == [type |-> "ValueError", of |-> 0, msg |-> "", cause |-> "none", origin |-> 0]
\* what operation or factory o of a workflow raises
WfError(o) == [type |-> "WfError", of |-> 0, msg |-> o, cause |-> "none", origin |-> 0]
SoleValueAlreadyRetrievedError == [type |-> "SoleValueAlreadyRetrievedError", of |-> 0, msg |-> "", cause |-> "none", origin |-> 0]
NoSourceProvidedError == [type |-> "NoSourceProvidedError", of |-> 0, msg |-> "", cause |-> "none", origin |-> 0]
\* whatever a callable handed in by the caller raises when it is invoked
CallableError == [type |-> "CallableError", of |-> 0, msg |-> "", cause |-> "none", origin |-> 0]

NoOutcome == [type |-> "none", val |-> <<>>, exc |-> NoExc]
Returned(v) == [type |-> "returned", val |-> v, exc |-> NoExc]
Raised(e) == [type |-> "raised", val |-> <<>>, exc |-> e]

\* ------------------------------------------------------------- handles
\* A concurrent.futures.Future: "pending" (queued), "running", then one of
\* "ok" (set_result), "err" (set_exception) or "cancelled".
FutureStates == {"pending", "running", "ok", "err", "cancelled"}
done(f) == f.st \in {"ok", "err", "cancelled"}

\* Mutant of future_succeeded: a cancelled handle counts as a success.
future_succeeded_Cancelled(f) == done(f) /\ f.st # "err"

\* sghi.utils.future_succeeded: a handle that is done, was not cancelled and
\* holds no exception. It does not wait: a handle not done yet is not a success.
future_succeeded(f) == done(f) /\ f.st # "cancelled" /\ f.st # "err"

\* Future.result() of a handle that is done: its value, or the exception it
\* raises (CancelledError for a cancelled one).
result_exc(f) == IF f.st = "cancelled" THEN CancelledError(f.idx) ELSE f.exc

\* cur: the handle belongs to the last call; idx: its unit of work; inp: the
\* input execute() was given; got: the arguments the embedded role was called
\* with, in turn; pols: the retry policies the unit asked the factory for.
NewFuture(i, inp) ==
    [cur |-> TRUE, idx |-> i, st |-> "pending", inp |-> inp, got |-> <<>>,
     pols |-> 0, val |-> <<>>, exc |-> NoExc]

\* ----------------------------------------------------- result gatherers
\* An exc_wrapper_factory argument: None, or an object that is truthy or not
\* and callable or not (RuntimeError: truthy and callable; "oops": truthy, not
\* callable; 0 or "": neither; a callable object whose __bool__ or __len__
\* makes it false: callable, not truthy).
NoFactory == [none |-> TRUE, truthy |-> FALSE, callable |-> FALSE]
ExcClass == [none |-> FALSE, truthy |-> TRUE, callable |-> TRUE]
FactoryArgs ==
    {NoFactory} \cup {[none |-> FALSE, truthy |-> t, callable |-> c] : t, c \in BOOLEAN}
\* An exc_wrapper_message argument; "" stands for None.
Messages == {"", "oops"}

\* `if exc_wrapper_factory` / `callable(...) if exc_wrapper_factory else True`
Truthy(fac) == ~fac.none /\ fac.truthy

\* Mutant of fail_fast_check: the call itself raises when a handle has failed.
fail_fast_check_Eager(iterable, fac) ==
    IF ~iterable THEN TypeError
    ELSE IF ~(IF Truthy(fac) THEN fac.callable ELSE TRUE) THEN ValueError
    ELSE IF \E j \in 1..Len(futures) : futures[j].st = "err" THEN RoleError(0)
    ELSE NoExc

\* fail_fast's two ensure_* checks: the exception the call raises, or NoExc
fail_fast_check(iterable, fac) ==
    IF ~iterable THEN TypeError
    ELSE IF ~(IF Truthy(fac) THEN fac.callable ELSE TRUE) THEN ValueError
    ELSE NoExc

\* fail_fast_factory's ensure_callable, then the fail_fast it returns
fail_fast_factory_check(iterable, fac) ==
    IF fac.none \/ ~fac.callable THEN ValueError
    ELSE fail_fast_check(iterable, fac)

\* ignored_failed's ensure_instance_of
ignored_failed_check(iterable) == IF ~iterable THEN TypeError ELSE NoExc

\* exc_wrapper_factory(exc_wrapper_message) from exp
Wrapped(m, e) == [type |-> "Wrapped", of |-> 0, msg |-> m, cause |-> e.type, origin |-> e.of]

\* _do_gather's except branch: what is raised for a failed handle f
fail_fast_raise(f, fac, m) ==
    IF Truthy(fac) THEN Wrapped(m, result_exc(f)) ELSE result_exc(f)

\* The handles a gatherer was given: those of the last call, in the order
\* ConcurrentExecutor.execute returned them.
GFutures == SelectSeq(futures, LAMBDA f : f.cur)

\* Mutant of NextItem: fail_fast passes over a failed handle and reads on.
NextItem_ReadsOn(fn, fac, m) ==
    IF gpos >= Len(GFutures)
    THEN [k |-> "stop", val |-> <<>>, exc |-> NoExc]
    ELSE LET f == GFutures[gpos + 1] IN
         IF fn = "ignored_failed"
         THEN IF future_succeeded(f)
              THEN [k |-> "yield", val |-> f.val, exc |-> NoExc]
              ELSE [k |-> "skip", val |-> <<>>, exc |-> NoExc]
         ELSE IF ~done(f)
              THEN [k |-> "blocked", val |-> <<>>, exc |-> NoExc]
              ELSE IF f.st = "ok"
                   THEN [k |-> "yield", val |-> f.val, exc |-> NoExc]
                   ELSE [k |-> "skip", val |-> <<>>, exc |-> NoExc]

\* Mutant of NextItem: fail_fast raises the failure of any handle that has
\* failed by now, the last one first, without waiting for the handles ahead.
NextItem_AsCompleted(fn, fac, m) ==
    IF gpos >= Len(GFutures)
    THEN [k |-> "stop", val |-> <<>>, exc |-> NoExc]
    ELSE LET f == GFutures[gpos + 1]
             failed == {j \in (gpos + 1)..Len(GFutures) : GFutures[j].st = "err"}
         IN
         IF fn = "ignored_failed"
         THEN IF future_succeeded(f)
              THEN [k |-> "yield", val |-> f.val, exc |-> NoExc]
              ELSE [k |-> "skip", val |-> <<>>, exc |-> NoExc]
         ELSE IF failed # {}
              THEN [k |-> "raise", val |-> <<>>,
                    exc |-> fail_fast_raise(GFutures[CHOOSE j \in failed : \A x \in failed : x <= j], fac, m)]
              ELSE IF ~done(f)
                   THEN [k |-> "blocked", val |-> <<>>, exc |-> NoExc]
                   ELSE [k |-> "yield", val |-> f.val, exc |-> NoExc]

\* One step of the lazy sequence a gatherer returned, for gatherer function
\* fn with wrapper factory fac and message m: the next handle is read
\* ("yield", "raise"), passed over ("skip"), not done yet while result()
\* waits for it ("blocked"), or there is none left ("stop").
NextItem(fn, fac, m) ==
    IF gpos >= Len(GFutures)
    THEN [k |-> "stop", val |-> <<>>, exc |-> NoExc]
    ELSE LET f == GFutures[gpos + 1] IN
         IF fn = "ignored_failed"
         THEN IF future_succeeded(f)
              THEN [k |-> "yield", val |-> f.val, exc |-> NoExc]
              ELSE [k |-> "skip", val |-> <<>>, exc |-> NoExc]
         ELSE IF ~done(f)
              THEN [k |-> "blocked", val |-> <<>>, exc |-> NoExc]
              ELSE IF f.st = "ok"
                   THEN [k |-> "yield", val |-> f.val, exc |-> NoExc]
                   ELSE [k |-> "raise", val |-> <<>>, exc |-> fail_fast_raise(f, fac, m)]

\* The iterator's variables after the step `it`
Advance(it) ==
    /\ gpos' = IF it.k = "stop" THEN gpos ELSE gpos + 1
    /\ gout' = IF it.k = "yield" THEN Append(gout, it.val) ELSE gout
    /\ consumed' = IF it.k \in {"yield", "raise"} THEN consumed \cup {gpos + 1} ELSE consumed

\* ------------------------------------------------------- the composites
\* The argument of draw/apply/drain: a Sequence (seq) of items, or a single
\* value that is no Sequence, held as the one item.
NoArg == [seq |-> FALSE, items |-> <<>>]
\* The caller passes another value with every call, in turn: two calls in a
\* row never carry the same input.
ScatterArgs == {[seq |-> FALSE, items |-> <<calls % Cardinality(Values)>>]}
\* Sequences whose neighbouring items differ, as long as the embedded roles
\* are many, one shorter and one longer; and a value that is no Sequence.
Alternating(b, n) == [i \in 1..n |-> (b + i) % Cardinality(Values)]
SplitArgs ==
    {[seq |-> TRUE, items |-> Alternating(calls, NumRoles)]}
    \cup {[seq |-> TRUE, items |-> Alternating(0, n)] : n \in {NumRoles - 1, NumRoles + 1}}
    \cup {[seq |-> FALSE, items |-> <<0>>]}

\* The arguments of a composite's constructor: the embedded roles (no
\* Sequence, an empty one, or the NumRoles roles), whether retry_policy_factory
\* and result_gatherer are callable, and executor_factory (not callable, or a
\* callable that returns an executor or raises).
CtorArgs ==
    [roles : {"notseq", "empty", "seq"},
     retry_policy_factory : BOOLEAN,
     executor_factory : {"notcallable", "returns", "raises"},
     result_gatherer : BOOLEAN]
\* The non-empty sequences of distinct embedded roles a caller can pass, and
\* the one every composite of Init was made from.
RECURSIVE Perms(_)
Perms(S) ==
    IF S = {} THEN {<<>>}
    ELSE UNION {{<<x>> \o p : p \in Perms(S \ {x})} : x \in S}
RoleSeqs == UNION {Perms(S) : S \in (SUBSET Roles) \ {{}}}
AllRoles == [i \in Roles |-> i]
Range(q) == {q[i] : i \in 1..Len(q)}

GoodCtorArgs ==
    [roles |-> "seq", retry_policy_factory |-> TRUE,
     executor_factory |-> "returns", result_gatherer |-> TRUE]

\* The operations run_workflow wraps in a retry policy, in the order in which
\* it asks the factory for their policies, and the components it creates.
Wrapped_ops == <<"prologue", "epilogue", "draw", "apply", "drain">>
Components == <<"source", "processor", "sink">>
WfOps == {Wrapped_ops[i] : i \in 1..Len(Wrapped_ops)}
WfFactories == {Components[i] : i \in 1..Len(Components)}

\* What run_workflow is given: wf (a factory, a WorkflowDefinition, or neither),
\* and for every operation of the workflow what it does when invoked: it
\* returns, it raises the first time only, or it raises every time; a
\* component factory returns its component or raises.
Scripts ==
    [wf : {"factory", "definition", "invalid"},
     ops : [WfOps -> {"ok", "fail_once", "fail"}],
     factories : [WfFactories -> {"ok", "fail"}]]
NoScript ==
    [wf |-> "definition", ops |-> [o \in WfOps |-> "ok"],
     factories |-> [c \in WfFactories |-> "ok"]]

\* No run_workflow call is under way.
WorkflowIdle ==
    /\ wscript = NoScript
    /\ wpc = "none"
    /\ wlog = <<>>
    /\ wmade = {}
    /\ werr = NoExc
    /\ wval = <<>>

\* A WorkflowBuilder nothing was registered on and nothing was done with.
NoOp == [name |-> "none", kind |-> "none", given |-> "none"]
BuilderIdle ==
    /\ bentries = <<>>
    /\ blists = [k \in WfFactories |-> <<>>]
    /\ bretrieved = {}
    /\ bdefs = <<>>
    /\ bbuilds = 0
    /\ bop = NoOp
    /\ bcomposite = [k \in WfFactories |-> "default"]

\* The result_gatherer values a composite is constructed with: the default
\* fail_fast, fail_fast_factory(RuntimeError, "oops") and ignored_failed.
GathererConfigs ==
    {<<"fail_fast", NoFactory, "">>, <<"fail_fast_factory", ExcClass, "oops">>,
     <<"ignored_failed", NoFactory, "">>}

Init ==
    /\ kind \in Kinds
    /\ policy \in Policies
    /\ IF kind \in Pipes
       THEN gfn = "none" /\ gfactory = NoFactory /\ gmsg = ""
       ELSE \E g \in GathererConfigs : gfn = g[1] /\ gfactory = g[2] /\ gmsg = g[3]
    /\ giterable = TRUE
    /\ is_disposed = FALSE
    /\ role_disposed = [i \in Roles |-> FALSE]
    /\ stack_open = TRUE
    /\ exec_disposed = FALSE
    /\ futures = <<>>
    /\ calls = 0
    /\ arg = NoArg
    /\ pc = "idle"
    /\ gpos = 0
    /\ gout = <<>>
    /\ consumed = {}
    /\ outcome = NoOutcome
    /\ cargs = GoodCtorArgs
    /\ registered = Roles
    /\ factory_calls = (IF kind \in Pipes THEN 0 ELSE 1)
    /\ passed = AllRoles
    /\ own = AllRoles
    /\ WorkflowIdle
    /\ BuilderIdle

\* Mutant of UnitArg: a split unit passes the whole input, not its own item.
UnitArg_WholeInput(f) == IF kind \in Sources THEN <<>> ELSE f.inp

\* What the unit of work of handle f passes to its embedded role: nothing
\* (do_draw), raw_data (the scatter variants) or raw_data[i] (the split ones).
UnitArg(f) ==
    IF kind \in Sources THEN <<>>
    ELSE IF kind \in SplitKinds THEN <<f.inp[f.idx]>>
    ELSE f.inp

\* The value embedded role i returns for the argument a: a sink returns None.
RoleValue(i, a) == IF kind \in Sinks THEN <<>> ELSE <<i>> \o a

\* Mutant of Submit: the units are submitted last role first.
Submit_Reversed(a) ==
    /\ futures' = [j \in 1..Len(SelectSeq(futures, LAMBDA f : ~done(f))) |->
                       [SelectSeq(futures, LAMBDA f : ~done(f))[j] EXCEPT !.cur = FALSE]]
                    \o [i \in Roles |-> NewFuture(NumRoles + 1 - i, a.items)]
    /\ gpos' = 0
    /\ gout' = <<>>
    /\ consumed' = {}

\* ConcurrentExecutor.execute: one handle per unit of work, submitted in the
\* order of the units. Nothing refers to the handles of the call before any
\* more: those that are done are garbage, the others stay with the pool.
Submit(a) ==
    /\ futures' = [j \in 1..Len(SelectSeq(futures, LAMBDA f : ~done(f))) |->
                       [SelectSeq(futures, LAMBDA f : ~done(f))[j] EXCEPT !.cur = FALSE]]
                    \o [i \in Roles |-> NewFuture(i, a.items)]
    /\ gpos' = 0
    /\ gout' = <<>>
    /\ consumed' = {}

\* The call raises e before anything is submitted.
Fail(e) ==
    /\ outcome' = Raised(e)
    /\ pc' = "idle"
    /\ UNCHANGED <<futures, iterVars>>

\* Mutant of DisposedError: neither guard looks at a disposed flag.
DisposedError_Never == NoExc

\* @not_disposed of the composite, then of its ConcurrentExecutor
\* (self._executor.__enter__): the error, or NoExc.
DisposedError ==
    IF is_disposed THEN ResourceDisposedError(0)
    ELSE IF exec_disposed THEN ResourceDisposedError(0 - 1)
    ELSE NoExc

\* Mutant of SplitError: only an input that is too short is refused.
SplitError_AllowsLonger(a) ==
    IF ~a.seq THEN TypeError
    ELSE IF Len(a.items) < NumRoles THEN SizeError(NumRoles, Len(a.items))
    ELSE NoExc

\* ensure_instance_of(Sequence), then ensure_predicate(len == len(embedded))
SplitError(a) ==
    IF ~a.seq THEN TypeError
    ELSE IF Len(a.items) # NumRoles THEN SizeError(NumRoles, Len(a.items))
    ELSE NoExc

CallFrame == UNCHANGED <<confVars, auxVars, gathVars, is_disposed, role_disposed, stack_open, exec_disposed>>

\* GatherSource.draw up to the end of its with-block
GatherSource_draw ==
    /\ kind = "GatherSource" /\ pc = "idle" /\ calls < MaxCalls
    /\ calls' = calls + 1
    /\ arg' = NoArg
    /\ IF DisposedError # NoExc THEN Fail(DisposedError)
       ELSE Submit(NoArg) /\ pc' = "exec_exit" /\ outcome' = NoOutcome
    /\ CallFrame

\* The with-block of draw ends: ConcurrentExecutor.__exit__ disposes the
\* executor, and shutdown(wait=True) returns when the pool has run every unit.
GatherSource_exit ==
    /\ pc = "exec_exit"
    /\ \A j \in 1..Len(futures) : done(futures[j])
    /\ exec_disposed' = TRUE
    /\ pc' = "gather"
    /\ UNCHANGED <<confVars, auxVars, gathVars, is_disposed, role_disposed, stack_open, calls, arg, futures, iterVars, outcome>>

\* ScatterGatherProcessor.apply up to the call of the gatherer
ScatterGatherProcessor_apply(a) ==
    /\ kind = "ScatterGatherProcessor" /\ pc = "idle" /\ calls < MaxCalls
    /\ calls' = calls + 1
    /\ arg' = a
    /\ IF DisposedError # NoExc THEN Fail(DisposedError)
       ELSE Submit(a) /\ pc' = "gather" /\ outcome' = NoOutcome
    /\ CallFrame

\* SplitGatherProcessor.apply up to the call of the gatherer
SplitGatherProcessor_apply(a) ==
    /\ kind = "SplitGatherProcessor" /\ pc = "idle" /\ calls < MaxCalls
    /\ calls' = calls + 1
    /\ arg' = a
    /\ IF is_disposed THEN Fail(ResourceDisposedError(0))
       ELSE IF SplitError(a) # NoExc THEN Fail(SplitError(a))
       ELSE IF DisposedError # NoExc THEN Fail(DisposedError)
       ELSE Submit(a) /\ pc' = "gather" /\ outcome' = NoOutcome
    /\ CallFrame

\* Mutant of Gather: a call that ends with a raise cancels the units of work
\* that are still queued.
Gather_CancelsRest ==
    /\ pc = "gather"
    /\ LET it == NextItem(gfn, gfactory, gmsg) IN
        /\ it.k # "blocked"
        /\ Advance(it)
        /\ outcome' = IF it.k = "stop" THEN Returned(gout)
                      ELSE IF it.k = "raise" THEN Raised(it.exc)
                      ELSE outcome
        /\ pc' = IF it.k \in {"stop", "raise"} THEN "idle" ELSE "gather"
        /\ futures' = IF it.k = "raise"
                      THEN [j \in 1..Len(futures) |->
                               IF futures[j].st = "pending"
                               THEN [futures[j] EXCEPT !.st = "cancelled"]
                               ELSE futures[j]]
                      ELSE futures
    /\ UNCHANGED <<confVars, auxVars, gathVars, compVars>>

\* Mutant of Gather: a call that ends with a raise disposes the composite.
Gather_DisposesOnRaise ==
    /\ pc = "gather"
    /\ LET it == NextItem(gfn, gfactory, gmsg) IN
        /\ it.k # "blocked"
        /\ Advance(it)
        /\ outcome' = IF it.k = "stop" THEN Returned(gout)
                      ELSE IF it.k = "raise" THEN Raised(it.exc)
                      ELSE outcome
        /\ pc' = IF it.k \in {"stop", "raise"} THEN "idle" ELSE "gather"
        /\ is_disposed' = (is_disposed \/ it.k = "raise")
    /\ UNCHANGED <<confVars, auxVars, gathVars, role_disposed, stack_open, exec_disposed, calls, arg, futures>>

\* tuple(self._result_gatherer(futures)): the caller reads the gatherer's
\* sequence to its end, waiting where the gatherer waits.
Gather ==
    /\ pc = "gather"
    /\ LET it == NextItem(gfn, gfactory, gmsg) IN
        /\ it.k # "blocked"
        /\ Advance(it)
        /\ outcome' = IF it.k = "stop" THEN Returned(gout)
                      ELSE IF it.k = "raise" THEN Raised(it.exc)
                      ELSE outcome
        /\ pc' = IF it.k \in {"stop", "raise"} THEN "idle" ELSE "gather"
    /\ UNCHANGED <<confVars, auxVars, gathVars, compVars, futures>>

\* ScatterSink.drain: the gatherer is called and what it returns is dropped
ScatterSink_drain(a) ==
    /\ kind = "ScatterSink" /\ pc = "idle" /\ calls < MaxCalls
    /\ calls' = calls + 1
    /\ arg' = a
    /\ IF DisposedError # NoExc THEN Fail(DisposedError)
       ELSE Submit(a) /\ pc' = "idle" /\ outcome' = Returned(<<>>)
    /\ CallFrame

\* SplitSink.drain: the gatherer is called and what it returns is dropped
SplitSink_drain(a) ==
    /\ kind = "SplitSink" /\ pc = "idle" /\ calls < MaxCalls
    /\ calls' = calls + 1
    /\ arg' = a
    /\ IF is_disposed THEN Fail(ResourceDisposedError(0))
       ELSE IF SplitError(a) # NoExc THEN Fail(SplitError(a))
       ELSE IF DisposedError # NoExc THEN Fail(DisposedError)
       ELSE Submit(a) /\ pc' = "idle" /\ outcome' = Returned(<<>>)
    /\ CallFrame

\* What the first n embedded processors of a ProcessorPipe make of a
RECURSIVE PipeValue(_, _)
PipeValue(n, a) == IF n = 0 THEN a ELSE RoleValue(n, PipeValue(n - 1, a))

\* ProcessorPipe.apply: pipe(*tasks).execute(raw_data) calls do_apply of every
\* embedded processor in turn on the caller's thread; the first one that
\* fails (k, after its retries) ends the call with its exception.
ProcessorPipe_apply(a) ==
    /\ kind \in Pipes /\ pc = "idle" /\ calls < MaxCalls
    /\ calls' = calls + 1
    /\ arg' = a
    /\ IF is_disposed THEN Fail(ResourceDisposedError(0))
       ELSE /\ \E k \in 0..NumRoles :
                  outcome' = IF k = 0 THEN Returned(PipeValue(NumRoles, a.items))
                             ELSE Raised(RoleError(k))
            /\ pc' = "idle"
            /\ UNCHANGED <<futures, iterVars>>
    /\ CallFrame

\* composite.__enter__ (@not_disposed): returns the composite itself, or
\* raises when it is disposed.
Composite_enter ==
    /\ pc = "idle" /\ kind \in Kinds
    /\ outcome' = IF is_disposed THEN Raised(ResourceDisposedError(0)) ELSE outcome
    /\ UNCHANGED <<confVars, auxVars, gathVars, compVars, futures, pc, iterVars>>

\* ------------------------------------------------------ the pool's workers
Pending == {j \in 1..Len(futures) : futures[j].st = "pending"}
Running == {j \in 1..Len(futures) : futures[j].st = "running"}
UnitFrame == UNCHANGED <<confVars, auxVars, gathVars, is_disposed, stack_open, exec_disposed, calls, arg, pc, iterVars, outcome>>

\* Leaving `with s as _s` in GatherSource's do_draw disposes the source s;
\* the processors' and sinks' units only call __enter__ and leave the role open.
AfterUnit(i) ==
    IF kind \in Sources THEN [role_disposed EXCEPT ![i] = TRUE] ELSE role_disposed

\* The handles once handle j holds what its unit ended with. Nothing refers
\* to a handle of an earlier call any more.
Settle(j, f) ==
    IF futures[j].cur THEN [futures EXCEPT ![j] = f]
    ELSE SelectSeq([k \in 1..Len(futures) |-> IF k = j THEN f ELSE futures[k]],
                   LAMBDA g : g.cur \/ ~done(g))

\* Mutant of UnitStart: the pool never runs the unit that was queued last.
UnitStart_LeavesLast ==
    /\ Cardinality(Pending) > 1
    /\ Cardinality(Running) < PoolSize
    /\ LET j == CHOOSE p \in Pending : \A q \in Pending : p <= q
           f == futures[j]
       IN futures' = Settle(j,
              IF role_disposed[f.idx]
              THEN [f EXCEPT !.st = "err", !.exc = ResourceDisposedError(f.idx)]
              ELSE [f EXCEPT !.st = "running", !.pols = 1, !.got = <<UnitArg(f)>>])
    /\ UNCHANGED role_disposed
    /\ UnitFrame

\* Mutant of UnitStart: the role's operation is called without asking the
\* factory for a retry policy.
UnitStart_NoPolicy ==
    /\ Pending # {}
    /\ Cardinality(Running) < PoolSize
    /\ LET j == CHOOSE p \in Pending : \A q \in Pending : p <= q
           f == futures[j]
       IN futures' = Settle(j,
              IF role_disposed[f.idx]
              THEN [f EXCEPT !.st = "err", !.exc = ResourceDisposedError(f.idx)]
              ELSE [f EXCEPT !.st = "running", !.got = <<UnitArg(f)>>])
    /\ UNCHANGED role_disposed
    /\ UnitFrame

\* Mutant of UnitStart: the unit calls the role's operation without entering
\* the role first, so a disposed role is operated too.
UnitStart_RunsDisposed ==
    /\ Pending # {}
    /\ Cardinality(Running) < PoolSize
    /\ LET j == CHOOSE p \in Pending : \A q \in Pending : p <= q
           f == futures[j]
       IN futures' = Settle(j, [f EXCEPT !.st = "running", !.pols = 1, !.got = <<UnitArg(f)>>])
    /\ UNCHANGED role_disposed
    /\ UnitFrame

\* A free worker takes the oldest queued unit: do_draw/do_apply/do_drain
\* enters its embedded role (@not_disposed), asks the factory for a retry
\* policy and calls the role's operation through it.
UnitStart ==
    /\ Pending # {}
    /\ Cardinality(Running) < PoolSize
    /\ LET j == CHOOSE p \in Pending : \A q \in Pending : p <= q
           f == futures[j]
       IN futures' = Settle(j,
              IF role_disposed[f.idx]
              THEN [f EXCEPT !.st = "err", !.exc = ResourceDisposedError(f.idx)]
              ELSE [f EXCEPT !.st = "running", !.pols = 1, !.got = <<UnitArg(f)>>])
    /\ UNCHANGED role_disposed
    /\ UnitFrame

\* The role's operation returns: the handle holds its value.
UnitReturns(j) ==
    /\ j \in Running
    /\ LET f == futures[j] IN
        /\ futures' = Settle(j, [f EXCEPT !.st = "ok", !.val = RoleValue(f.idx, f.got[Len(f.got)])])
        /\ role_disposed' = AfterUnit(f.idx)
    /\ UnitFrame

\* Mutant of UnitRaises: the operation is called again whatever the policy.
UnitRaises_AlwaysAgain(j) ==
    /\ j \in Running
    /\ LET f == futures[j]
           again == Len(f.got) = 1
       IN IF again /\ ~role_disposed[f.idx]
          THEN /\ futures' = [futures EXCEPT ![j] = [f EXCEPT !.got = Append(f.got, UnitArg(f))]]
               /\ UNCHANGED role_disposed
          ELSE /\ futures' = Settle(j, [f EXCEPT !.st = "err",
                                  !.exc = IF again THEN ResourceDisposedError(f.idx)
                                          ELSE RoleError(f.idx)])
               /\ role_disposed' = AfterUnit(f.idx)
    /\ UnitFrame

\* The role's operation raises: the retry policy calls it again (retry_once,
\* after the first failure) or the handle holds the exception.
UnitRaises(j) ==
    /\ j \in Running
    /\ LET f == futures[j]
           again == policy = "retry_once" /\ Len(f.got) = 1
       IN IF again /\ ~role_disposed[f.idx]
          THEN /\ futures' = [futures EXCEPT ![j] = [f EXCEPT !.got = Append(f.got, UnitArg(f))]]
               /\ UNCHANGED role_disposed
          ELSE /\ futures' = Settle(j, [f EXCEPT !.st = "err",
                                  !.exc = IF again THEN ResourceDisposedError(f.idx)
                                          ELSE RoleError(f.idx)])
               /\ role_disposed' = AfterUnit(f.idx)
    /\ UnitFrame

\* ------------------------------------------------------------- dispose()
\* Mutant of Dispose: the exit stack is not closed, the roles stay as they are.
Dispose_LeavesRoles ==
    /\ kind \in Kinds /\ pc = "idle"
    /\ is_disposed' = TRUE
    /\ pc' = IF kind \in Pipes THEN "idle" ELSE "shutdown"
    /\ UNCHANGED <<confVars, auxVars, gathVars, role_disposed, stack_open, exec_disposed, calls, arg, futures, iterVars, outcome>>

\* dispose() up to self._executor.dispose(): self._is_disposed = True, then
\* self._exit_stack.close() exits every embedded role the stack still holds,
\* and each role's __exit__ disposes it.
Dispose ==
    /\ kind \in Kinds /\ pc = "idle"
    /\ is_disposed' = TRUE
    /\ role_disposed' = IF stack_open
                        THEN [i \in Roles |-> role_disposed[i] \/ i \in registered]
                        ELSE role_disposed
    /\ stack_open' = FALSE
    /\ pc' = IF kind \in Pipes THEN "idle" ELSE "shutdown"
    /\ UNCHANGED <<confVars, auxVars, gathVars, exec_disposed, calls, arg, futures, iterVars, outcome>>

\* Mutant of Shutdown: once the executor is disposed the composite counts as
\* not disposed again.
Shutdown_ResetsFlag ==
    /\ pc = "shutdown"
    /\ \A j \in 1..Len(futures) : done(futures[j])
    /\ exec_disposed' = TRUE
    /\ is_disposed' = FALSE
    /\ pc' = "idle"
    /\ UNCHANGED <<confVars, auxVars, gathVars, role_disposed, stack_open, calls, arg, futures, iterVars, outcome>>

\* ConcurrentExecutor.dispose: shutdown(wait=True) returns when the pool has
\* run every unit it was given, then _is_disposed = True.
Shutdown ==
    /\ pc = "shutdown"
    /\ \A j \in 1..Len(futures) : done(futures[j])
    /\ exec_disposed' = TRUE
    /\ pc' = "idle"
    /\ UNCHANGED <<confVars, auxVars, gathVars, is_disposed, role_disposed, stack_open, calls, arg, futures, iterVars, outcome>>

Next ==
    \/ GatherSource_draw
    \/ GatherSource_exit
    \/ \E a \in ScatterArgs : ScatterGatherProcessor_apply(a)
    \/ \E a \in SplitArgs : SplitGatherProcessor_apply(a)
    \/ Gather
    \/ \E a \in ScatterArgs : ScatterSink_drain(a)
    \/ \E a \in SplitArgs : SplitSink_drain(a)
    \/ \E a \in ScatterArgs : ProcessorPipe_apply(a)
    \/ Composite_enter
    \/ UnitStart
    \/ \E j \in 1..Len(futures) : UnitReturns(j)
    \/ \E j \in 1..Len(futures) : UnitRaises(j)
    \/ Dispose
    \/ Shutdown

Spec == Init /\ [][Next]_vars

\* The threads keep going: a free worker of the pool takes a queued unit, a
\* role's operation that is running returns or raises, and the calling thread
\* goes on when the handle or the shutdown it waits for is ready.
Fairness ==
    /\ WF_vars(UnitStart)
    /\ WF_vars(\E j \in 1..Len(futures) : UnitReturns(j) \/ UnitRaises(j))
    /\ WF_vars(Gather)
    /\ WF_vars(GatherSource_exit)

\* The composites with fail-fast gathering, under fair scheduling
InitLive == Init /\ gfn \in {"none", "fail_fast", "fail_fast_factory"}
SpecLive == InitLive /\ [][Next]_vars /\ Fairness

\* ------------------------------------------- the gatherers, called directly
\* A caller builds a collection of handles, each done (with a value, with an
\* exception, or cancelled) or never to be done, calls a gatherer on it and
\* reads the sequence it returned.
MadeFuture(i, st) ==
    [cur |-> TRUE, idx |-> i, st |-> st, inp |-> <<>>, got |-> <<>>, pols |-> 0,
     val |-> IF st = "ok" THEN <<i>> ELSE <<>>,
     exc |-> IF st = "err" THEN RoleError(i) ELSE NoExc]

InitGather ==
    /\ kind = "none"
    /\ policy = "noop_retry"
    /\ gfn = "none"
    /\ gfactory = NoFactory
    /\ gmsg = ""
    /\ giterable = TRUE
    /\ is_disposed = FALSE
    /\ role_disposed = [i \in Roles |-> FALSE]
    /\ stack_open = FALSE
    /\ exec_disposed = FALSE
    /\ \E n \in 0..MaxFutures :
         \E sts \in [1..n -> {"pending", "ok", "err", "cancelled"}] :
            futures = [i \in 1..n |-> MadeFuture(i, sts[i])]
    /\ calls = 0
    /\ arg = NoArg
    /\ pc = "idle"
    /\ gpos = 0
    /\ gout = <<>>
    /\ consumed = {}
    /\ outcome = NoOutcome
    /\ cargs = GoodCtorArgs
    /\ registered = {}
    /\ factory_calls = 0
    /\ passed = <<>>
    /\ own = <<>>
    /\ WorkflowIdle
    /\ BuilderIdle

\* The call of gatherer function fn with these arguments: it raises e, or
\* returns the lazy sequence, of which nothing has been read.
CallGatherer(fn, iterable, fac, m, e) ==
    /\ pc = "idle" /\ kind = "none"
    /\ gfn' = fn
    /\ giterable' = iterable
    /\ gfactory' = fac
    /\ gmsg' = m
    /\ outcome' = IF e # NoExc THEN Raised(e) ELSE NoOutcome
    /\ pc' = IF e # NoExc THEN "call_raised" ELSE "iter"
    /\ UNCHANGED <<confVars, auxVars, compVars, futures, iterVars>>

\* fail_fast(futures, exc_wrapper_factory, exc_wrapper_message)
Call_fail_fast(iterable, fac, m) ==
    CallGatherer("fail_fast", iterable, fac, m, fail_fast_check(iterable, fac))

\* fail_fast_factory(exc_wrapper_factory, exc_wrapper_message)(futures)
Call_fail_fast_factory(iterable, fac, m) ==
    CallGatherer("fail_fast_factory", iterable, fac, m, fail_fast_factory_check(iterable, fac))

\* ignored_failed(futures)
Call_ignored_failed(iterable) ==
    CallGatherer("ignored_failed", iterable, NoFactory, "", ignored_failed_check(iterable))

\* next() on the sequence the gatherer returned: a generator, which is
\* finished once it has raised and then only stops.
IterNext ==
    /\ pc \in {"iter", "iter_raised"}
    /\ LET it == IF pc = "iter_raised" THEN [k |-> "stop", val |-> <<>>, exc |-> NoExc]
                 ELSE NextItem(gfn, gfactory, gmsg)
       IN
        /\ it.k # "blocked"
        /\ Advance(it)
        /\ outcome' = IF it.k = "raise" THEN Raised(it.exc) ELSE outcome
        /\ pc' = IF it.k = "stop" THEN "exhausted"
                 ELSE IF it.k = "raise" THEN "iter_raised"
                 ELSE "iter"
    /\ UNCHANGED <<confVars, auxVars, gathVars, compVars, futures>>

NextGather ==
    \/ \E iterable \in BOOLEAN, fac \in FactoryArgs, m \in Messages : Call_fail_fast(iterable, fac, m)
    \/ \E iterable \in BOOLEAN, fac \in FactoryArgs, m \in Messages : Call_fail_fast_factory(iterable, fac, m)
    \/ \E iterable \in BOOLEAN : Call_ignored_failed(iterable)
    \/ IterNext

SpecGather == InitGather /\ [][NextGather]_vars

\* --------------------------------------------------------- construction
\* The constructors of GatherSource, ScatterGatherProcessor,
\* SplitGatherProcessor, ScatterSink and SplitSink, called with any of
\* CtorArgs on embedded roles some of which may be disposed already.
InitConstruct ==
    /\ kind \in Sources \cup Processors \cup Sinks
    /\ policy = "noop_retry"
    /\ gfn = "none"
    /\ gfactory = NoFactory
    /\ gmsg = ""
    /\ giterable = TRUE
    /\ is_disposed = FALSE
    /\ role_disposed \in [Roles -> BOOLEAN]
    /\ stack_open = FALSE
    /\ exec_disposed = FALSE
    /\ futures = <<>>
    /\ calls = 0
    /\ arg = NoArg
    /\ pc = "new"
    /\ gpos = 0
    /\ gout = <<>>
    /\ consumed = {}
    /\ outcome = NoOutcome
    /\ cargs \in CtorArgs
    /\ passed \in (IF cargs.roles = "seq" THEN RoleSeqs ELSE {<<>>})
    /\ own = <<>>
    /\ registered = {}
    /\ factory_calls = 0
    /\ WorkflowIdle
    /\ BuilderIdle

\* Mutant of CtorError: the callables are looked at before the roles.
CtorError_CallablesFirst(a) ==
    IF ~a.retry_policy_factory THEN ValueError
    ELSE IF a.executor_factory = "notcallable" THEN ValueError
    ELSE IF ~a.result_gatherer THEN ValueError
    ELSE IF a.roles = "notseq" THEN TypeError
    ELSE IF a.roles = "empty" THEN ValueError
    ELSE NoExc

\* What the checks at the head of __init__ raise, in their order:
\* ensure_not_none_nor_empty(ensure_instance_of(roles, Sequence)), then
\* ensure_callable of retry_policy_factory, executor_factory, result_gatherer.
CtorError(a) ==
    IF a.roles = "notseq" THEN TypeError
    ELSE IF a.roles = "empty" THEN ValueError
    ELSE IF ~a.retry_policy_factory THEN ValueError
    ELSE IF a.executor_factory = "notcallable" THEN ValueError
    ELSE IF ~a.result_gatherer THEN ValueError
    ELSE NoExc

\* __init__: self._processors = tuple(processors) copies the caller's
\* sequence; after the checks, every embedded role of the copy is pushed onto a new
\* ExitStack (push neither enters nor exits it) and wrapped into a task; then
\* ConcurrentExecutor(*tasks, executor=self._executor_factory()) is built.
\* Nothing catches what executor_factory() raises: the exception leaves
\* __init__ with the roles on a stack that nothing will ever close.
Construct ==
    /\ pc = "new"
    /\ LET e == CtorError(cargs)
           made == e = NoExc /\ cargs.executor_factory = "returns"
       IN /\ own' = IF cargs.roles = "seq" THEN passed ELSE <<>>
          /\ registered' = IF e = NoExc THEN Range(passed) ELSE {}
          /\ stack_open' = (e = NoExc)
          /\ factory_calls' = IF e = NoExc THEN 1 ELSE 0
          /\ outcome' = IF e # NoExc THEN Raised(e)
                        ELSE IF made THEN Returned(<<>>) ELSE Raised(CallableError)
          /\ gfn' = IF made THEN "fail_fast" ELSE gfn
          /\ pc' = IF made THEN "idle" ELSE "failed"
    /\ UNCHANGED <<confVars, wfVars, bldVars, cargs, passed, gfactory, gmsg, giterable, is_disposed,
                   role_disposed, exec_disposed, calls, arg, futures, iterVars>>

\* Mutant of caller_mutates: the composite holds the caller's sequence object
\* itself, so what the caller does to it shows in the composite.
caller_mutates_Aliased ==
    /\ pc \in {"idle", "shutdown"}
    /\ passed' \in (RoleSeqs \cup {<<>>}) \ {passed}
    /\ own' = passed'
    /\ registered' = Range(passed')
    /\ UNCHANGED <<confVars, compVars, futures, pc, iterVars, outcome, gathVars,
                   wfVars, bldVars, cargs, factory_calls>>

\* The caller changes the sequence object it passed to the constructor
\* (append, remove, reorder, clear). The composite holds a tuple made from it
\* at construction, and tasks and an exit stack made from that tuple: none of
\* them is the caller's object.
caller_mutates ==
    /\ pc \in {"idle", "shutdown"}
    /\ passed' \in (RoleSeqs \cup {<<>>}) \ {passed}
    /\ UNCHANGED <<confVars, compVars, futures, pc, iterVars, outcome, gathVars,
                   wfVars, bldVars, cargs, factory_calls, own, registered>>

NextConstruct ==
    \/ Construct
    \/ caller_mutates
    \/ Dispose
    \/ Shutdown

SpecConstruct == InitConstruct /\ [][NextConstruct]_vars

\* ---------------------------------------------------------- run_workflow
\* run_workflow(wf, retry_policy_factory) on any of Scripts; `policy` is the
\* kind of Retry the factory supplies (noop_retry also when it is None).
InitWorkflow ==
    /\ kind = "none"
    /\ policy \in Policies
    /\ gfn = "none"
    /\ gfactory = NoFactory
    /\ gmsg = ""
    /\ giterable = TRUE
    /\ is_disposed = FALSE
    /\ role_disposed = [i \in Roles |-> FALSE]
    /\ stack_open = FALSE
    /\ exec_disposed = FALSE
    /\ futures = <<>>
    /\ calls = 0
    /\ arg = NoArg
    /\ pc = "idle"
    /\ gpos = 0
    /\ gout = <<>>
    /\ consumed = {}
    /\ outcome = NoOutcome
    /\ cargs = GoodCtorArgs
    /\ registered = {}
    /\ factory_calls = 0
    /\ passed = <<>>
    /\ own = <<>>
    /\ wscript \in Scripts
    /\ wpc = "start"
    /\ wlog = <<>>
    /\ wmade = {}
    /\ werr = NoExc
    /\ wval = <<>>
    /\ BuilderIdle

\* An entry of the log: the workflow factory was invoked ("wf"), the retry
\* policy factory was invoked for operation o ("policy"), operation o itself
\* was invoked ("call"), the factory of component o was invoked ("make"),
\* component o was disposed ("dispose"). A call names the operation whose
\* policy made it (by) and the argument it was given (got).
Ev(e, o) == [ev |-> e, op |-> o, by |-> "none", got |-> <<>>]

\* Whether the operation, called through its retry policy, returns; and how
\* often the policy invokes it until then or until it gives up.
Succeeds(o) ==
    \/ wscript.ops[o] = "ok"
    \/ wscript.ops[o] = "fail_once" /\ policy = "retry_once"
Attempts(o) == IF wscript.ops[o] = "ok" \/ policy = "noop_retry" THEN 1 ELSE 2

\* What draw returns, and what apply makes of x
DrawValue == <<"raw">>
ApplyValue(x) == <<"applied">> \o x

\* Mutant of Invocations: the operation is called without the value the
\* operation before it returned.
Invocations_NoArgument(o) ==
    [i \in 1..Attempts(o) |-> [ev |-> "call", op |-> o, by |-> o, got |-> <<>>]]

\* The calls the policy of o makes: drain(process(draw())) hands draw's value
\* to process and process's value to drain; prologue, draw and epilogue take
\* no argument.
Invocations(o) ==
    [i \in 1..Attempts(o) |->
        [ev |-> "call", op |-> o, by |-> o,
         got |-> IF o \in {"apply", "drain"} THEN wval ELSE <<>>]]

WfFrame == UNCHANGED <<confVars, compVars, futures, pc, iterVars, gathVars, ctorVars, bldVars, wscript>>

\* Mutant of run_workflow_begin: the policy of the epilogue is asked for
\* before the one of the prologue.
run_workflow_begin_EpilogueFirst ==
    /\ wpc = "start"
    /\ IF wscript.wf = "invalid"
       THEN /\ outcome' = Raised(ValueError)
            /\ wpc' = "done"
            /\ UNCHANGED wlog
       ELSE /\ wlog' = (IF wscript.wf = "factory" THEN <<Ev("wf", "wf")>> ELSE <<>>)
                        \o <<Ev("policy", "epilogue"), Ev("policy", "prologue")>>
            /\ wpc' = "prologue"
            /\ UNCHANGED outcome
    /\ UNCHANGED <<wmade, werr, wval>>
    /\ WfFrame

\* Up to the try statement: the two ensure_predicate checks, wd = wf() for a
\* callable wf, and the policies of prologue and epilogue.
run_workflow_begin ==
    /\ wpc = "start"
    /\ IF wscript.wf = "invalid"
       THEN /\ outcome' = Raised(ValueError)
            /\ wpc' = "done"
            /\ UNCHANGED wlog
       ELSE /\ wlog' = (IF wscript.wf = "factory" THEN <<Ev("wf", "wf")>> ELSE <<>>)
                        \o <<Ev("policy", "prologue"), Ev("policy", "epilogue")>>
            /\ wpc' = "prologue"
            /\ UNCHANGED outcome
    /\ UNCHANGED <<wmade, werr, wval>>
    /\ WfFrame

\* A wrapped operation is called at position `at`: it returns and
\* run_workflow goes on at `next`, or it raises and run_workflow leaves for
\* `out`. `before` is what was logged in the same step ahead of the call.
Invoke(o, at, before, next, out) ==
    /\ wpc = at
    /\ wlog' = wlog \o before \o Invocations(o)
    /\ IF Succeeds(o)
       THEN /\ wpc' = next
            /\ wval' = IF o = "draw" THEN DrawValue
                       ELSE IF o = "apply" THEN ApplyValue(wval)
                       ELSE wval
            /\ UNCHANGED werr
       ELSE /\ wpc' = out
            /\ werr' = WfError(o)
            /\ UNCHANGED wval
    /\ UNCHANGED <<wmade, outcome>>
    /\ WfFrame

\* prologue(), the first statement of the try block: when it raises, the
\* with statement is skipped and the finally clause runs.
run_prologue == Invoke("prologue", "prologue", <<>>, Components[1], "epilogue")

\* One item of the with statement: wd.<component>_factory() is invoked and the
\* component entered; when the factory raises, the items entered before it
\* are exited.
with_enter(i) ==
    /\ wpc = Components[i]
    /\ wlog' = Append(wlog, Ev("make", Components[i]))
    /\ IF wscript.factories[Components[i]] = "ok"
       THEN /\ wmade' = wmade \cup {Components[i]}
            /\ wpc' = IF i < Len(Components) THEN Components[i + 1] ELSE "draw"
            /\ UNCHANGED werr
       ELSE /\ werr' = WfError(Components[i])
            /\ wpc' = "exit"
            /\ UNCHANGED wmade
    /\ UNCHANGED <<outcome, wval>>
    /\ WfFrame

\* The body of the with statement: the policies of draw, apply and drain are
\* asked for, then drain(process(draw())) calls draw, ...
run_draw ==
    Invoke("draw", "draw",
           <<Ev("policy", "draw"), Ev("policy", "apply"), Ev("policy", "drain")>>,
           "apply", "exit")

\* ... then process on what draw returned, ...
run_apply == Invoke("apply", "apply", <<>>, "drain", "exit")

\* ... then drain on what process returned.
run_drain == Invoke("drain", "drain", <<>>, "exit", "exit")

\* The components entered, last one first
RECURSIVE Exits(_)
Exits(i) ==
    IF i = 0 THEN <<>>
    ELSE (IF Components[i] \in wmade THEN <<Ev("dispose", Components[i])>> ELSE <<>>)
         \o Exits(i - 1)

\* Leaving the with statement, normally or with an exception: __exit__ of
\* every component entered disposes it, the last one entered first.
with_exit ==
    /\ wpc = "exit"
    /\ wlog' = wlog \o Exits(Len(Components))
    /\ wpc' = "epilogue"
    /\ UNCHANGED <<wmade, werr, wval, outcome>>
    /\ WfFrame

\* finally: epilogue(). What it raises replaces the exception on its way out
\* of the try statement; when it returns, that exception goes on to the
\* caller, or run_workflow returns None.
run_epilogue ==
    /\ wpc = "epilogue"
    /\ wlog' = wlog \o Invocations("epilogue")
    /\ outcome' = IF ~Succeeds("epilogue") THEN Raised(WfError("epilogue"))
                  ELSE IF werr # NoExc THEN Raised(werr)
                  ELSE Returned(<<>>)
    /\ wpc' = "done"
    /\ UNCHANGED <<wmade, werr, wval>>
    /\ WfFrame

NextWorkflow ==
    \/ run_workflow_begin
    \/ run_prologue
    \/ \E i \in 1..Len(Components) : with_enter(i)
    \/ run_draw
    \/ run_apply
    \/ run_drain
    \/ with_exit
    \/ run_epilogue

SpecWorkflow == InitWorkflow /\ [][NextWorkflow]_vars

\* ------------------------------------------------------- WorkflowBuilder
\* A new WorkflowBuilder with no factories given to its constructor.
InitBuilder ==
    /\ kind = "none"
    /\ policy = "noop_retry"
    /\ gfn = "none"
    /\ gfactory = NoFactory
    /\ gmsg = ""
    /\ giterable = TRUE
    /\ is_disposed = FALSE
    /\ role_disposed = [i \in Roles |-> FALSE]
    /\ stack_open = FALSE
    /\ exec_disposed = FALSE
    /\ futures = <<>>
    /\ calls = 0
    /\ arg = NoArg
    /\ pc = "idle"
    /\ gpos = 0
    /\ gout = <<>>
    /\ consumed = {}
    /\ outcome = NoOutcome
    /\ cargs = GoodCtorArgs
    /\ registered = {}
    /\ factory_calls = 0
    /\ passed = <<>>
    /\ own = <<>>
    /\ WorkflowIdle
    /\ BuilderIdle

BuilderFrame == UNCHANGED <<confVars, compVars, futures, pc, iterVars, gathVars, ctorVars, wfVars, bcomposite>>

\* What can be handed to draw_from & co.: a Source/Processor/Sink instance, a
\* callable that is none, or neither.
Givens == {"instance", "callable", "other"}

\* What a registered factory supplies: the instance that was registered
\* (from = "instance") or what the registered callable makes (from =
\* "callable"); id is the position of the registration among all.
Item(id) == [from |-> bentries[id].what, id |-> id]

\* draw_from / apply_processor / drain_to (flow), and the decorators
\* draws_from / applies_processor / drains_to, which insist on an instance
\* (ensure_instance_of) and then delegate to the former. An instance is
\* wrapped by _create_factory, a callable is appended as it is, anything
\* else is refused.
register(k, given, decorator) ==
    /\ Len(bentries) < MaxRegistered
    /\ bop' = [name |-> "register", kind |-> k, given |-> given]
    /\ IF decorator /\ given # "instance"
       THEN /\ outcome' = Raised(TypeError)
            /\ UNCHANGED <<bentries, blists>>
       ELSE IF given = "other"
       THEN /\ outcome' = Raised(ValueError)
            /\ UNCHANGED <<bentries, blists>>
       ELSE /\ bentries' = Append(bentries, [kind |-> k, what |-> given, at |-> bbuilds])
            /\ blists' = [blists EXCEPT ![k] = Append(@, Len(bentries) + 1)]
            /\ outcome' = Returned(<<>>)
    /\ UNCHANGED <<bretrieved, bdefs, bbuilds>>
    /\ BuilderFrame

\* Mutant of BuildFactory: the first registered factory is taken however
\* many there are.
BuildFactory_FirstOnly(k) ==
    IF Len(blists[k]) >= 1 THEN [by |-> "entry", id |-> blists[k][1]]
    ELSE [by |-> "default", id |-> 0]

\* _build_source_factory / _build_processor_factory / _build_sink_factory:
\* two or more registered: a factory that calls the composite factory; one:
\* the registered factory itself; none: the default factory (for sources
\* NoSourceProvidedError, raised by build).
BuildFactory(k) ==
    IF Len(blists[k]) >= 2 THEN [by |-> "composite", id |-> 0]
    ELSE IF Len(blists[k]) = 1 THEN [by |-> "entry", id |-> blists[k][1]]
    ELSE [by |-> "default", id |-> 0]

\* build() (and __call__): the three factories are chosen, none of them is
\* invoked, and a SimpleWorkflowDefinition holding them is returned.
build ==
    /\ bbuilds < MaxBuilds
    /\ bbuilds' = bbuilds + 1
    /\ bop' = [name |-> "build", kind |-> "none", given |-> "none"]
    /\ IF Len(blists["source"]) = 0
       THEN /\ outcome' = Raised(NoSourceProvidedError)
            /\ UNCHANGED bdefs
       ELSE /\ bdefs' = Append(bdefs, [k \in WfFactories |-> BuildFactory(k)])
            /\ outcome' = Returned(<<>>)
    /\ UNCHANGED <<bentries, blists, bretrieved>>
    /\ BuilderFrame

\* Mutant of Retrieve: the once-only factory never remembers that it gave
\* its value away.
Retrieve_Forgets(ids, n) == {}

\* The once-only factories among the first n of ids: invoking them sets
\* has_been_retrieved.
Retrieve(ids, n) == {ids[i] : i \in {x \in 1..n : bentries[ids[x]].what = "instance"}}

\* Invoking the factories ids in turn ([_f() for _f in factories]): the first
\* once-only factory whose value is gone raises
\* SoleValueAlreadyRetrievedError, after the ones ahead of it were invoked;
\* otherwise every factory supplies its item.
InvokeAll(ids, by) ==
    LET gone == {i \in 1..Len(ids) : bentries[ids[i]].what = "instance" /\ ids[i] \in bretrieved}
    IN IF gone = {}
       THEN /\ outcome' = Returned([by |-> by, items |-> [i \in 1..Len(ids) |-> Item(ids[i])]])
            /\ bretrieved' = bretrieved \cup Retrieve(ids, Len(ids))
       ELSE LET first == CHOOSE i \in gone : \A x \in gone : i <= x
            IN /\ outcome' = Raised(SoleValueAlreadyRetrievedError)
               /\ bretrieved' = bretrieved \cup Retrieve(ids, first - 1)

\* One of the builder's registered factories is invoked (source_factories[i]()).
invoke_registered(k, i) ==
    /\ i \in 1..Len(blists[k])
    /\ bop' = [name |-> "invoke", kind |-> k, given |-> "registered"]
    /\ InvokeAll(<<blists[k][i]>>, "entry")
    /\ UNCHANGED <<bentries, blists, bdefs, bbuilds>>
    /\ BuilderFrame

\* clear_source_factories / clear_processor_factories /
\* clear_sink_factories: the builder's list of the kind is emptied in place.
clear_factories(k) ==
    /\ bop' = [name |-> "clear", kind |-> k, given |-> "none"]
    /\ blists' = [blists EXCEPT ![k] = <<>>]
    /\ outcome' = Returned(<<>>)
    /\ UNCHANGED <<bentries, bretrieved, bdefs, bbuilds>>
    /\ BuilderFrame

\* The setters composite_source_factory / composite_processor_factory /
\* composite_sink_factory: another callable takes the place of the composite
\* factory the builder was constructed with.
set_composite_factory(k) ==
    /\ bcomposite[k] = "default"
    /\ bop' = [name |-> "composite", kind |-> k, given |-> "callable"]
    /\ bcomposite' = [bcomposite EXCEPT ![k] = "replaced"]
    /\ outcome' = Returned(<<>>)
    /\ UNCHANGED <<bentries, blists, bretrieved, bdefs, bbuilds>>
    /\ UNCHANGED <<confVars, compVars, futures, pc, iterVars, gathVars, ctorVars, wfVars>>

\* The factories the composite factory of definition d invokes: _factory
\* reads self._source_factories (& co.) when it is called.
Held(d, k) == blists[k]

\* A factory of a built definition is invoked (wd.source_factory()): the
\* registered factory, the default factory, or the composite one, which
\* invokes every factory the builder holds by then and hands what they
\* supply to the composite factory the builder has by then. The composite
\* factories a builder starts with (GatherSource, ScatterGatherProcessor,
\* ScatterSink) refuse an empty sequence.
invoke_definition(d, k) ==
    /\ d \in 1..Len(bdefs)
    /\ bop' = [name |-> "invoke", kind |-> k, given |-> "definition"]
    /\ LET f == bdefs[d][k]
       IN IF f.by = "entry" THEN InvokeAll(<<f.id>>, "entry")
          ELSE IF f.by = "composite"
          THEN IF Held(d, k) = <<>> /\ bcomposite[k] = "default"
               THEN outcome' = Raised(ValueError) /\ UNCHANGED bretrieved
               ELSE InvokeAll(Held(d, k), IF bcomposite[k] = "default" THEN "composite" ELSE "replaced")
          ELSE InvokeAll(<<>>, "default")
    /\ UNCHANGED <<bentries, blists, bdefs, bbuilds>>
    /\ BuilderFrame

NextBuilder ==
    \/ \E k \in WfFactories, given \in Givens, decorator \in BOOLEAN : register(k, given, decorator)
    \/ build
    \/ \E k \in WfFactories, i \in 1..MaxRegistered : invoke_registered(k, i)
    \/ \E d \in 1..MaxBuilds, k \in WfFactories : invoke_definition(d, k)

SpecBuilder == InitBuilder /\ [][NextBuilder]_vars

\* A builder that is also cleared and given other composite factories
\* between registrations, builds and invocations.
NextBuilderEdit ==
    \/ NextBuilder
    \/ \E k \in WfFactories : clear_factories(k)
    \/ \E k \in WfFactories : set_composite_factory(k)

SpecBuilderEdit == InitBuilder /\ [][NextBuilderEdit]_vars

\* ================================================================ claims
\* The argument embedded role i is to be called with in the call of `arg`
Handed(i) ==
    IF kind \in Sources THEN <<>>
    ELSE IF kind \in SplitKinds THEN <<arg.items[i]>>
    ELSE arg.items

\* The value embedded role i produces in the call of `arg`
Produced(i) == IF kind \in Sinks THEN <<>> ELSE <<i>> \o Handed(i)

\* C1: GatherSource.draw, ScatterGatherProcessor.apply and
\* SplitGatherProcessor.apply under the default fail_fast gatherer: whatever
\* order the units complete in, the values gathered so far are those of the
\* first embedded roles in construction order, and when the call returns, the
\* i-th element of its result is the value embedded role i produced.
C1_ResultInRoleOrder ==
    (kind \in Sources \cup Processors /\ gfn = "fail_fast")
    => /\ pc = "gather"
            => /\ Len(gout) <= NumRoles
               /\ \A i \in 1..Len(gout) : gout[i] = Produced(i)
       /\ outcome.type = "returned"
            => /\ Len(outcome.val) = NumRoles
               /\ \A i \in Roles : outcome.val[i] = Produced(i)

\* C1 witness: the caller waits on the first handle while the last unit has
\* completed before the first one.
C1_Witness ==
    /\ kind \in Processors /\ gfn = "fail_fast"
    /\ pc = "gather" /\ gpos = 0
    /\ Len(GFutures) = NumRoles
    /\ GFutures[NumRoles].st = "ok"
    /\ GFutures[1].st = "running"

FailFast == {"fail_fast", "fail_fast_factory"}
InCall == pc = "gather" \/ outcome.type = "returned"

\* C2: ScatterGatherProcessor.apply(x): every call of an embedded processor's
\* apply is a call with x; under a fail-fast gatherer a call that returns
\* returns (p_1(x), ..., p_n(x)) in declaration order; under the no-op retry
\* policy no unit calls its processor's apply twice, and every unit of a call
\* that returned has called it once.
C2_ScatterSameInputOnce ==
    kind = "ScatterGatherProcessor"
    => /\ \A j \in 1..Len(futures) :
             \A k \in 1..Len(futures[j].got) : futures[j].got[k] = futures[j].inp
       /\ InCall => \A j \in 1..Len(GFutures) : GFutures[j].inp = arg.items
       /\ (gfn \in FailFast /\ outcome.type = "returned")
            => outcome.val = [i \in Roles |-> <<i>> \o arg.items]
       /\ policy = "noop_retry"
            => /\ \A j \in 1..Len(futures) :
                     /\ Len(futures[j].got) <= 1
                     /\ futures[j].st \in {"running", "ok"} => Len(futures[j].got) = 1
               /\ (gfn \in FailFast /\ outcome.type = "returned")
                    => \A j \in 1..Len(GFutures) : Len(GFutures[j].got) = 1

\* C2 witness: apply(x) has returned the n values under fail_fast and noop_retry
C2_Witness ==
    /\ kind = "ScatterGatherProcessor" /\ gfn = "fail_fast" /\ policy = "noop_retry"
    /\ outcome.type = "returned"
    /\ Len(outcome.val) = NumRoles
    /\ \A j \in 1..Len(GFutures) : GFutures[j].got = <<arg.items>>

\* C3: SplitGatherProcessor.apply(xs) and SplitSink.drain(xs) with as many
\* items as embedded roles: every call of embedded role i's operation is a
\* call with xs[i]; under a fail-fast gatherer a SplitGatherProcessor call that
\* returns returns (p_1(xs[1]), ..., p_n(xs[n])).
C3_SplitItemPerRole ==
    kind \in SplitKinds
    => /\ \A j \in 1..Len(futures) :
             \A k \in 1..Len(futures[j].got) :
                futures[j].got[k] = <<futures[j].inp[futures[j].idx]>>
       /\ InCall => \A j \in 1..Len(GFutures) :
                        GFutures[j].inp = arg.items /\ GFutures[j].idx = j
       /\ (kind = "SplitGatherProcessor" /\ gfn \in FailFast /\ outcome.type = "returned")
            => outcome.val = [i \in Roles |-> <<i, arg.items[i]>>]

\* C3 witness: apply(xs) has returned, xs holding different items
C3_Witness ==
    /\ kind = "SplitGatherProcessor" /\ gfn = "fail_fast"
    /\ outcome.type = "returned"
    /\ Len(outcome.val) = NumRoles
    /\ arg.items[1] # arg.items[2]
    /\ \A j \in 1..Len(GFutures) : GFutures[j].got = <<<<arg.items[j]>>>>

\* C4: a call of SplitGatherProcessor.apply or SplitSink.drain on an instance
\* that is not disposed raises TypeError for an input that is no Sequence and
\* a ValueError naming the number of embedded roles and the input's length for
\* a Sequence of another length; the call submits nothing, no embedded role is
\* called and the composite is still not disposed.
C4_SplitInputRefused ==
    [][(kind \in SplitKinds /\ ~is_disposed /\ calls' # calls
            /\ (~arg'.seq \/ Len(arg'.items) # NumRoles))
        => /\ outcome' = IF ~arg'.seq THEN Raised(TypeError)
                         ELSE Raised(SizeError(NumRoles, Len(arg'.items)))
           /\ futures' = futures
           /\ ~is_disposed'
           /\ role_disposed' = role_disposed
           /\ pc' = "idle"]_vars

\* C4 witness: a Sequence one item too long was refused, nothing was submitted
C4_Witness ==
    /\ kind \in SplitKinds /\ ~is_disposed
    /\ outcome = Raised(SizeError(NumRoles, NumRoles + 1))
    /\ futures = <<>>

Failed(f) == f.st \in {"err", "cancelled"}
\* The position of the first failed handle among those the gatherer was given, or 0
FirstFailed ==
    IF \E j \in 1..Len(GFutures) : Failed(GFutures[j])
    THEN CHOOSE k \in 1..Len(GFutures) :
            Failed(GFutures[k]) /\ \A i \in 1..(k - 1) : ~Failed(GFutures[i])
    ELSE 0
\* The values of the successful handles among the first n, in order
OkValues(n) ==
    LET s == SelectSeq(SubSeq(GFutures, 1, n), LAMBDA f : f.st = "ok")
    IN [i \in 1..Len(s) |-> s[i].val]
Iterating == pc \in {"iter", "iter_raised", "exhausted"}

\* C5: fail_fast over handles whose first failed one is at position k: the
\* sequence yields the values of the handles before k in order, raises on the
\* read of handle k and yields nothing after that, no handle after k being
\* read; when no handle failed it yields every value in order.
C5_FailFastStopsAtFirstFailure ==
    (kind = "none" /\ gfn \in FailFast /\ Iterating)
    => /\ consumed = 1..gpos
       /\ gout = [i \in 1..Len(gout) |-> GFutures[i].val]
       /\ pc = "iter" => outcome = NoOutcome /\ Len(gout) = gpos
       /\ FirstFailed # 0
            => /\ gpos <= FirstFailed
               /\ Len(gout) < FirstFailed
               /\ pc \in {"iter_raised", "exhausted"}
                    => /\ gpos = FirstFailed
                       /\ Len(gout) = FirstFailed - 1
                       /\ outcome.type = "raised"
       /\ FirstFailed = 0
            => /\ pc # "iter_raised"
               /\ pc = "exhausted"
                    => /\ outcome = NoOutcome
                       /\ gout = [i \in 1..Len(GFutures) |-> GFutures[i].val]

\* C5 witness: the read of a handle in the middle raised after a value was yielded
C5_Witness ==
    /\ kind = "none" /\ gfn = "fail_fast"
    /\ pc = "exhausted" /\ outcome.type = "raised"
    /\ Len(gout) >= 1
    /\ gpos < Len(GFutures)
    /\ consumed = 1..gpos

\* C6: when fail_fast, or a gatherer made by fail_fast_factory, reaches the
\* first failed handle: with a wrapper factory supplied the exception raised
\* is the one the factory builds from the message, its cause the handle's own
\* exception; with none supplied the handle's own exception is raised.
C6_WrapperFactoryUsedWhenSupplied ==
    (kind = "none" /\ gfn \in FailFast /\ pc = "iter_raised")
    => outcome.exc = IF ~gfactory.none /\ gfactory.callable
                     THEN Wrapped(gmsg, result_exc(GFutures[gpos]))
                     ELSE result_exc(GFutures[gpos])

ValidArgs == giterable /\ (gfactory.none \/ gfactory.callable)

\* C7: a call of fail_fast or ignored_failed with valid arguments returns its
\* sequence without raising and without reading a handle, whatever failed;
\* the failure of a handle is raised only by a read of the sequence, at the
\* first failed handle in order, and never by ignored_failed.
C7_CallIsLazy ==
    [][/\ (pc = "idle" /\ pc' # "idle" /\ kind = "none"
              /\ gfn' \in {"fail_fast", "ignored_failed"} /\ ValidArgs')
          => /\ pc' = "iter"
             /\ outcome' = NoOutcome
             /\ gpos' = 0 /\ gout' = <<>> /\ consumed' = {}
             /\ futures' = futures
       /\ (kind = "none" /\ outcome'.type = "raised" /\ outcome.type # "raised"
              /\ outcome'.exc.type \notin {"TypeError", "ValueError"})
          => /\ pc = "iter" /\ pc' = "iter_raised"
             /\ gfn # "ignored_failed"
             /\ gpos' = FirstFailed]_vars

\* C7 witness: fail_fast has returned over handles of which one failed, nothing read
C7_Witness ==
    /\ kind = "none" /\ gfn = "fail_fast" /\ ValidArgs
    /\ pc = "iter" /\ gpos = 0 /\ consumed = {}
    /\ outcome = NoOutcome
    /\ FirstFailed # 0

\* C8: the gatherers validate their arguments in the call, not on a read:
\* fail_fast and ignored_failed raise TypeError for a 'futures' that is no
\* Iterable; fail_fast raises ValueError for every exc_wrapper_factory that
\* is neither None nor callable; fail_fast_factory raises ValueError for
\* every exc_wrapper_factory that is not callable.
C8_ArgumentsValidatedByCall ==
    (kind = "none" /\ pc # "idle")
    => /\ (gfn \in {"fail_fast", "ignored_failed"} /\ ~giterable)
            => pc = "call_raised" /\ outcome = Raised(TypeError)
       /\ (gfn = "fail_fast" /\ giterable /\ ~gfactory.none /\ ~gfactory.callable)
            => pc = "call_raised" /\ outcome = Raised(ValueError)
       /\ (gfn = "fail_fast_factory" /\ (gfactory.none \/ ~gfactory.callable))
            => pc = "call_raised" /\ outcome = Raised(ValueError)

\* C9: ignored_failed over handles that are all done: the sequence is the
\* values of the successful handles in their order, failed and cancelled
\* handles are passed over, and no read raises.
C9_IgnoredFailedKeepsSuccesses ==
    (kind = "none" /\ gfn = "ignored_failed" /\ Iterating
        /\ \A j \in 1..Len(GFutures) : done(GFutures[j]))
    => /\ pc # "iter_raised"
       /\ outcome = NoOutcome
       /\ gout = OkValues(gpos)
       /\ pc = "exhausted" => gpos = Len(GFutures) /\ gout = OkValues(Len(GFutures))

\* C9 witness: read to the end over a failed, a cancelled and a successful handle
C9_Witness ==
    /\ kind = "none" /\ gfn = "ignored_failed" /\ pc = "exhausted"
    /\ \A j \in 1..Len(GFutures) : done(GFutures[j])
    /\ \E j \in 1..Len(GFutures) : GFutures[j].st = "err"
    /\ \E j \in 1..Len(GFutures) : GFutures[j].st = "cancelled"
    /\ Len(gout) >= 1 /\ Len(gout) < Len(GFutures)

\* C10: what GatherSource.draw, ScatterGatherProcessor.apply and
\* SplitGatherProcessor.apply return is, element for element, what the
\* gatherer yields for the handles of the call; with ignored_failed and one
\* failing unit out of n the call returns n - 1 elements.
C10_ResultIsWhatGathererYields ==
    (kind \in Sources \cup Processors /\ outcome.type = "returned" /\ pc = "idle")
    => /\ outcome.val = gout
       /\ (gfn = "ignored_failed" /\ ~is_disposed
              /\ (\A j \in 1..Len(GFutures) : done(GFutures[j]))
              /\ Cardinality({j \in 1..Len(GFutures) : GFutures[j].st = "err"}) = 1)
            => Len(outcome.val) = NumRoles - 1

\* C11: ScatterSink.drain and SplitSink.drain read the gathered sequence:
\* under a fail-fast gatherer a drain call of a composite that was never
\* disposed has not returned normally when the drain of one of its embedded
\* sinks failed in that call.
C11_SinkDrainRaisesEmbeddedFailure ==
    (kind \in Sinks /\ gfn \in FailFast /\ ~is_disposed /\ outcome.type = "returned")
    => \A j \in 1..Len(GFutures) : GFutures[j].st # "err"

\* C12: draw/apply/drain return when gathering is over: once a call under the
\* default gatherer has returned normally, every unit of work of that call
\* is done.
C12_CallReturnsAfterUnitsDone ==
    (kind \in Sources \cup Processors \cup Sinks /\ gfn = "fail_fast"
        /\ pc = "idle" /\ outcome.type = "returned")
    => \A j \in 1..Len(GFutures) : done(GFutures[j])

\* C13: after one or more dispose() calls on a composite of any type the
\* composite and every embedded role are disposed and stay so; a dispose()
\* call changes nothing else the caller sees, raises nothing, and its wait
\* for the executor ends with the executor disposed, on a repeated call too.
C13_DisposeIdempotent ==
    [][/\ is_disposed' => \A i \in Roles : role_disposed'[i]
       /\ is_disposed => is_disposed'
       /\ (pc = "idle" /\ pc' = "shutdown")
            => is_disposed' /\ outcome' = outcome /\ futures' = futures
       /\ (pc = "shutdown" /\ pc' # "shutdown")
            => pc' = "idle" /\ is_disposed' /\ exec_disposed' /\ outcome' = outcome]_vars

\* C13 witness: a second dispose() is under way on a composite whose first
\* dispose() ended
C13_Witness ==
    /\ kind \in Processors \cup Sinks
    /\ is_disposed /\ exec_disposed /\ ~stack_open
    /\ pc = "shutdown"
    /\ \A i \in Roles : role_disposed[i]

\* C14: an embedded role is disposed by the composite's dispose() only: as
\* long as dispose() was not called on the composite, whatever
\* draw/apply/drain calls were made, no embedded role is disposed.
C14_RolesDisposedOnlyByDispose ==
    \A i \in Roles : role_disposed[i] => is_disposed

\* C15: on a disposed composite every call of draw/apply/drain and of
\* __enter__ raises a disposed-resource error; the call submits no unit of
\* work and invokes no embedded role.
C15_DisposedCompositeRefuses ==
    [][(is_disposed /\ pc = "idle" /\ (calls' # calls \/ outcome' # outcome))
        => /\ outcome'.type = "raised"
           /\ outcome'.exc.type = "ResourceDisposedError"
           /\ futures' = futures
           /\ role_disposed' = role_disposed
           /\ pc' = "idle"]_vars

\* C15 witness: the only call made on the composite came after dispose(), was
\* refused and submitted nothing
C15_Witness ==
    /\ is_disposed /\ pc = "idle"
    /\ kind \in Sinks
    /\ calls = 1 /\ futures = <<>>
    /\ outcome = Raised(ResourceDisposedError(0))

\* C16: a draw/apply/drain call that raises because a unit of work failed,
\* through the gatherer or, in a ProcessorPipe, straight from the failed
\* processor, leaves the composite not disposed.
C16_FailingCallDoesNotDispose ==
    [][(outcome'.type = "raised" /\ outcome' # outcome
            /\ (pc = "gather" \/ (kind \in Pipes /\ outcome'.exc.type = "RoleError")))
        => ~is_disposed /\ ~is_disposed']_vars

\* C16 witness: apply has raised the failure of an embedded processor and the
\* composite is not disposed
C16_Witness ==
    /\ kind = "ScatterGatherProcessor" /\ pc = "idle"
    /\ outcome.type = "raised" /\ outcome.exc.type = "RoleError"
    /\ ~is_disposed

\* C17: when GatherSource.draw under the default fail_fast has raised the
\* exception of a failed embedded source and dispose() was not called on the
\* GatherSource, what was raised is that source's own exception and no
\* embedded source is disposed.
C17_SourcesUsableAfterFailedDraw ==
    (kind = "GatherSource" /\ gfn = "fail_fast" /\ ~is_disposed /\ pc = "idle"
        /\ outcome.type = "raised" /\ outcome.exc.type = "RoleError")
    => /\ outcome.exc = RoleError(FirstFailed)
       /\ \A i \in Roles : ~role_disposed[i]

\* C18: a composite that was never disposed serves every call: no
\* draw/apply/drain call on it ends with a disposed-resource error.
C18_NotDisposedServesEveryCall ==
    (kind \in Kinds /\ ~is_disposed /\ outcome.type = "raised")
    => outcome.exc.type # "ResourceDisposedError"

C20_NoHandleCancelled ==
    [][/\ \A j \in 1..Len(futures') : futures'[j].st # "cancelled"
       /\ (pc = "gather" /\ outcome'.type = "raised") => futures' = futures
       /\ (calls' = calls /\ futures' # futures)
            => LET old == GFutures
                   new == GFutures'
               IN /\ Len(new) = Len(old)
                  /\ \A j \in 1..Len(old) :
                       \/ new[j] = old[j]
                       \/ old[j].st = "running" /\ new[j].st \in {"running", "ok", "err"}
                       \/ old[j].st = "pending" /\ new[j].st \in {"running", "err"}]_vars

\* C20 witness: apply has raised the failure of the first processor while the
\* unit of the last one is still running
C20_Witness ==
    /\ kind = "ScatterGatherProcessor" /\ gfn = "fail_fast" /\ pc = "idle"
    /\ outcome = Raised(RoleError(1))
    /\ Len(GFutures) = NumRoles
    /\ GFutures[NumRoles].st = "running"

\* C21: for calls made one after another by one caller, no embedded role has
\* two of its operations running on two workers at the same time.
C21_RoleRunsOnOneWorkerAtATime ==
    \A j \in Running : \A k \in Running :
        futures[j].idx = futures[k].idx => j = k

\* C22: the constructor of the five concurrent composites raises TypeError
\* for embedded roles that are no Sequence, ValueError for an empty Sequence
\* and ValueError for a retry_policy_factory, executor_factory or
\* result_gatherer that is not callable; it does so without invoking
\* executor_factory, without submitting a unit of work to any embedded role
\* and without disposing one.
C22_ConstructorValidates ==
    [][(pc = "new" /\ pc' # "new")
        => LET notCallable == \/ ~cargs.retry_policy_factory
                              \/ cargs.executor_factory = "notcallable"
                              \/ ~cargs.result_gatherer
               refused == cargs.roles # "seq" \/ notCallable
           IN /\ cargs.roles = "notseq" => outcome' = Raised(TypeError)
              /\ cargs.roles = "empty" => outcome' = Raised(ValueError)
              /\ (cargs.roles = "seq" /\ notCallable) => outcome' = Raised(ValueError)
              /\ refused => /\ pc' = "failed"
                            /\ factory_calls' = 0
                            /\ registered' = {}
                            /\ futures' = <<>>
                            /\ role_disposed' = role_disposed
              /\ ~refused => factory_calls' = 1]_vars

\* C22 witness: the constructor refused roles that are no Sequence although
\* one of the callables is not callable either, and left a role undisposed
C22_Witness ==
    /\ pc = "failed" /\ outcome = Raised(TypeError)
    /\ cargs.roles = "notseq" /\ ~cargs.result_gatherer
    /\ factory_calls = 0
    /\ \E i \in Roles : ~role_disposed[i]

\* C23: when the constructor fails after it registered embedded roles with
\* its exit stack, every registered role is disposed.
C23_FailedConstructionDisposesRegistered ==
    (pc = "failed" /\ registered # {}) => \A i \in registered : role_disposed[i]

\* C24: a unit of work that starts when its embedded role is disposed already
\* ends at once with a disposed-resource error: the role's operation is not
\* invoked, no retry policy is asked for and nothing is retried, whatever the
\* retry policy; every other handle stays as it is. And no handle ever shows
\* an operation invoked on a role that was refused.
C24_DisposedRoleNeverOperated ==
    [][/\ (calls' = calls /\ Cardinality(Pending') < Cardinality(Pending))
            => LET j == CHOOSE p \in Pending : \A q \in Pending : p <= q
                   f == futures[j]
                   refused == [f EXCEPT !.st = "err", !.exc = ResourceDisposedError(f.idx)]
               IN role_disposed[f.idx]
                    => /\ refused.got = <<>> /\ refused.pols = 0
                       /\ role_disposed' = role_disposed
                       /\ IF f.cur
                          THEN futures' = [futures EXCEPT ![j] = refused]
                          ELSE futures' = [k \in 1..(Len(futures) - 1) |->
                                              IF k < j THEN futures[k] ELSE futures[k + 1]]
       /\ \A k \in 1..Len(futures') :
             (futures'[k].exc.type = "ResourceDisposedError" /\ futures'[k].pols = 0)
                => futures'[k].got = <<>> /\ futures'[k].st = "err"]_vars

\* C24 witness: under a retrying policy, a sink's unit that was still queued
\* when dispose() disposed the sink was refused without a single drain
C24_Witness ==
    /\ kind \in Sinks /\ policy = "retry_once" /\ is_disposed
    /\ \E j \in 1..Len(futures) :
          /\ futures[j].st = "err"
          /\ futures[j].exc = ResourceDisposedError(futures[j].idx)
          /\ futures[j].got = <<>>
          /\ futures[j].pols = 0

\* How often the log holds the entry, and where
Count(e, o) == Cardinality({i \in 1..Len(wlog) : wlog[i].ev = e /\ wlog[i].op = o})
At(e, o) == {i \in 1..Len(wlog) : wlog[i].ev = e /\ wlog[i].op = o}

\* C25: when run_workflow has ended after its prologue, draw, apply or drain
\* raised E, every component it created was disposed, the epilogue was
\* invoked exactly once and after the disposals, and E is what the caller
\* gets; after a run in which nothing failed the three components were
\* disposed and the epilogue was invoked exactly once.
C25_FailedRunCleansUpAndRaises ==
    (wpc = "done" /\ wscript.wf # "invalid")
    => /\ werr.msg \in {"prologue", "draw", "apply", "drain"}
            => /\ \A c \in wmade : Count("dispose", c) = 1
               /\ Count("call", "epilogue") = 1
               /\ \A c \in wmade : \A i \in At("dispose", c) :
                     \A k \in At("call", "epilogue") : i < k
               /\ outcome = Raised(werr)
       /\ werr = NoExc
            => /\ wmade = WfFactories
               /\ \A c \in wmade : Count("dispose", c) = 1
               /\ Count("call", "epilogue") = 1

\* C26: when the prologue raises, no component factory is invoked, neither
\* draw nor apply nor drain is called, the epilogue is, and the prologue's
\* error is what the caller gets.
C26_FailedPrologueSkipsWorkflow ==
    (wpc = "done" /\ werr = WfError("prologue"))
    => /\ \A c \in WfFactories : Count("make", c) = 0
       /\ \A o \in {"draw", "apply", "drain"} : Count("call", o) = 0
       /\ Count("call", "epilogue") >= 1
       /\ outcome = Raised(WfError("prologue"))

\* C27: run_workflow asks the retry policy factory at most once for each of
\* prologue, epilogue, draw, apply and drain, in this order; every call of
\* an operation is made by the policy asked for on its behalf, asked for
\* before the call; the workflow factory, when wf is one, is invoked once.
C27_OnePolicyPerOperationInOrder ==
    LET asked == SelectSeq(wlog, LAMBDA x : x.ev = "policy")
    IN /\ Len(asked) <= Len(Wrapped_ops)
       /\ \A i \in 1..Len(asked) : asked[i].op = Wrapped_ops[i]
       /\ \A i \in 1..Len(wlog) :
             wlog[i].ev = "call"
                => /\ wlog[i].by = wlog[i].op
                   /\ \E k \in 1..(i - 1) : wlog[k] = Ev("policy", wlog[i].op)
       /\ (wpc \notin {"start", "none"} /\ wscript.wf # "invalid")
             => Count("wf", "wf") = (IF wscript.wf = "factory" THEN 1 ELSE 0)

\* C27 witness: a run given a workflow factory has gone through all of its
\* operations: five policies were asked for, and the retrying policy of
\* draw called draw twice
C27_Witness ==
    /\ wpc = "done" /\ wscript.wf = "factory" /\ policy = "retry_once"
    /\ Len(SelectSeq(wlog, LAMBDA x : x.ev = "policy")) = Len(Wrapped_ops)
    /\ Count("call", "draw") = 2
    /\ Count("call", "drain") = 1
    /\ outcome = Returned(<<>>)

\* C28: registering an instance appends a once-only factory to the list of
\* its kind, and registering a callable (through the flow methods) appends
\* that callable itself; invoking a registered once-only factory returns the
\* very instance registered the first time and raises
\* SoleValueAlreadyRetrievedError every later time, while a registered
\* callable supplies what it makes every time.
C28_InstanceStoredAsOnceOnlyFactory ==
    [][/\ (bop'.name = "register" /\ outcome'.type = "returned")
            => LET id == Len(bentries) + 1
               IN /\ bop'.given \in {"instance", "callable"}
                  /\ bentries' = Append(bentries, [kind |-> bop'.kind, what |-> bop'.given, at |-> bbuilds])
                  /\ blists' = [blists EXCEPT ![bop'.kind] = Append(@, id)]
                  /\ id \notin bretrieved'
       /\ (bop'.name = "invoke" /\ bop'.given = "registered")
            => \E i \in 1..Len(blists[bop'.kind]) :
                  LET id == blists[bop'.kind][i]
                  IN IF bentries[id].what = "callable"
                     THEN /\ outcome' = Returned([by |-> "entry", items |-> <<[from |-> "callable", id |-> id]>>])
                          /\ bretrieved' = bretrieved
                     ELSE IF id \in bretrieved
                     THEN /\ outcome' = Raised(SoleValueAlreadyRetrievedError)
                          /\ bretrieved' = bretrieved
                     ELSE /\ outcome' = Returned([by |-> "entry", items |-> <<[from |-> "instance", id |-> id]>>])
                          /\ bretrieved' = bretrieved \cup {id}
       /\ bretrieved \subseteq bretrieved']_vars

\* C28 witness: the factory of a registered source instance was invoked
\* again after it gave the instance away, and raised
C28_Witness ==
    /\ bop = [name |-> "invoke", kind |-> "source", given |-> "registered"]
    /\ outcome = Raised(SoleValueAlreadyRetrievedError)
    /\ \E id \in bretrieved : bentries[id] = [kind |-> "source", what |-> "instance", at |-> 0]

\* C29: build() fails with NoSourceProvidedError when no source is
\* registered; otherwise the definition it returns holds, for each kind of
\* component, the one registered factory itself, or the default factory when
\* none is registered, or for two or more a factory that hands what all the
\* registered factories supply, in registration order, to the composite
\* factory.
C29_BuildChoosesByCount ==
    [][/\ bop'.name = "build"
            => IF Len(blists["source"]) = 0
               THEN outcome' = Raised(NoSourceProvidedError) /\ bdefs' = bdefs
               ELSE /\ outcome'.type = "returned"
                    /\ Len(bdefs') = Len(bdefs) + 1
                    /\ \A k \in WfFactories :
                          LET f == bdefs'[Len(bdefs')][k]
                              n == Len(blists[k])
                          IN /\ n = 1 => f = [by |-> "entry", id |-> blists[k][1]]
                             /\ n >= 2 => f.by = "composite"
                             /\ n = 0 => f.by = "default"
       /\ (bop'.name = "invoke" /\ bop'.given = "definition" /\ outcome'.type = "returned")
            => LET v == outcome'.val
                   l == blists[bop'.kind]
               IN v.by = "composite"
                    => /\ v.items = [i \in 1..Len(l) |-> [from |-> bentries[l[i]].what, id |-> l[i]]]
                       /\ \A i \in 1..(Len(l) - 1) : l[i] < l[i + 1]]_vars

\* C29 witness: a definition built from two sources, an instance and a
\* callable, and neither processor nor sink, whose composite source factory
\* was invoked and returned
C29_Witness ==
    /\ \E d \in 1..Len(bdefs) :
          /\ bdefs[d]["source"].by = "composite"
          /\ bdefs[d]["processor"].by = "default"
          /\ bdefs[d]["sink"].by = "default"
    /\ bentries[1].what = "instance" /\ bentries[2].what = "callable"
    /\ bop = [name |-> "invoke", kind |-> "source", given |-> "definition"]
    /\ outcome.type = "returned"
    /\ outcome.val.by = "composite"
    /\ Len(outcome.val.items) = 2

\* C30: once an instance was registered, a second build() fails with
\* SoleValueAlreadyRetrievedError.
C30_SecondBuildFails ==
    (/\ bop.name = "build"
     /\ bbuilds >= 2
     /\ \E id \in 1..Len(bentries) : bentries[id].what = "instance" /\ bentries[id].at = 0)
    => outcome = Raised(SoleValueAlreadyRetrievedError)

\* C31: is_disposed of the composite and of every embedded role is false
\* after construction and, once true, stays true: dispose() sets it, and no
\* call, no __enter__, no failed call, no unit of work and no further
\* dispose() sets it back.
C31_IsDisposedMonotonic ==
    /\ ~is_disposed /\ \A i \in Roles : ~role_disposed[i]
    /\ [][/\ is_disposed => is_disposed'
          /\ \A i \in Roles : role_disposed[i] => role_disposed'[i]
          /\ (pc = "idle" /\ pc' = "shutdown") => is_disposed'
          /\ (~is_disposed /\ is_disposed') => (pc = "idle" /\ calls' = calls)]_vars

\* C31 witness: after dispose() ended, the last of the caller's calls was
\* made and refused: the composite and its roles are still disposed
C31_Witness ==
    /\ kind = "SplitGatherProcessor"
    /\ is_disposed /\ exec_disposed /\ pc = "idle"
    /\ calls = MaxCalls
    /\ outcome = Raised(ResourceDisposedError(0))
    /\ \A i \in Roles : role_disposed[i]

\* C32: under a fail-fast gatherer draw/apply raise the failure of unit k
\* only once every unit ahead of k has completed, and completed well: no
\* earlier unit is queued or running then, and none has failed, so of two
\* failed units it is the one with the lower index whose error is raised,
\* whichever failed first.
C32_FailFastWaitsInHandleOrder ==
    [][(pc = "gather" /\ gfn \in FailFast /\ kind \in Sources \cup Processors
            /\ outcome'.type = "raised")
        => LET k == gpos + 1
           IN /\ k <= Len(GFutures)
              /\ \A j \in 1..(k - 1) : GFutures[j].st = "ok"
              /\ Failed(GFutures[k])
              /\ outcome'.exc = fail_fast_raise(GFutures[k], gfactory, gmsg)
              /\ k = FirstFailed
              /\ pc' = "idle"]_vars

\* C32 witness: both the first and the last processor failed, and apply
\* raised the first one's error
C32_Witness ==
    /\ kind = "ScatterGatherProcessor" /\ gfn = "fail_fast" /\ pc = "idle"
    /\ ~is_disposed
    /\ Len(GFutures) = NumRoles
    /\ GFutures[1].st = "err" /\ GFutures[NumRoles].st = "err"
    /\ outcome = Raised(RoleError(1))

\* C33: dispose() neither cancels the units of work of an earlier call nor
\* makes them fail: on a disposed composite too, every unit that is done has
\* invoked its embedded role's operation and holds that operation's value or
\* that operation's own failure.
C33_DisposeLetsUnitsRun ==
    is_disposed
    => \A j \in 1..Len(futures) :
          done(futures[j])
            => /\ futures[j].st # "cancelled"
               /\ Len(futures[j].got) >= 1
               /\ futures[j].st = "err" => futures[j].exc = RoleError(futures[j].idx)

\* C34: the embedded roles of a constructed composite, and with them its
\* units of work and what its exit stack holds, are not empty and are those
\* the caller's sequence held at construction, in its order; nothing changes
\* them afterwards, neither dispose() nor the caller changing its sequence,
\* and dispose() disposes exactly these roles.
C34_EmbeddedRolesFixed ==
    /\ [][(pc \in {"idle", "shutdown"})
            => /\ own' = own /\ registered' = registered
               /\ own # <<>> /\ registered = Range(own)
               /\ (pc = "idle" /\ pc' = "shutdown" /\ stack_open)
                    => \A i \in Roles : role_disposed'[i] = (role_disposed[i] \/ i \in Range(own))]_vars
    /\ [][(pc = "new" /\ pc' = "idle") => own' = passed /\ passed' = passed]_vars

\* C34 witness: the composite was made from the one role 2, the caller then
\* put both roles into its sequence, and dispose() disposed role 2 only
C34_Witness ==
    /\ pc = "shutdown" /\ is_disposed
    /\ own = <<NumRoles>> /\ passed = AllRoles
    /\ role_disposed[NumRoles] /\ ~role_disposed[1]

\* The latest position of an entry, 0 when there is none, and the earliest
\* one, past the end of the log when there is none
Last(e, o) == IF At(e, o) = {} THEN 0 ELSE CHOOSE i \in At(e, o) : \A x \in At(e, o) : x <= i
First(e, o) == IF At(e, o) = {} THEN Len(wlog) + 1 ELSE CHOOSE i \in At(e, o) : \A x \in At(e, o) : i <= x

\* C35: run_workflow calls prologue, draw, apply, drain, disposes the
\* components and calls the epilogue in this order, each at most once under
\* the no-op retry policy; apply is given what draw returned and drain what
\* apply returned; apply and drain are not called when draw raised, and
\* drain is not called when apply raised.
C35_StepsInOrder ==
    /\ Last("call", "prologue") < First("call", "draw")
    /\ Last("call", "draw") < First("call", "apply")
    /\ Last("call", "apply") < First("call", "drain")
    /\ \A c \in WfFactories :
          /\ Last("call", "drain") < First("dispose", c)
          /\ Last("dispose", c) < First("call", "epilogue")
          /\ Count("dispose", c) <= 1
    /\ policy = "noop_retry" => \A o \in WfOps : Count("call", o) <= 1
    /\ \A i \in 1..Len(wlog) :
          /\ wlog[i].ev = "call" /\ wlog[i].op = "apply" => wlog[i].got = DrawValue
          /\ wlog[i].ev = "call" /\ wlog[i].op = "drain" => wlog[i].got = ApplyValue(DrawValue)
    /\ werr = WfError("draw") => Count("call", "apply") = 0 /\ Count("call", "drain") = 0
    /\ werr = WfError("apply") => Count("call", "drain") = 0
    /\ wpc = "done" /\ werr = NoExc /\ wscript.wf # "invalid"
          => \A o \in WfOps : Count("call", o) >= 1

\* C35 witness: a run under the no-op policy in which nothing failed has
\* ended: every operation was called once and the three components disposed
C35_Witness ==
    /\ wpc = "done" /\ policy = "noop_retry" /\ outcome = Returned(<<>>)
    /\ \A o \in WfOps : Count("call", o) = 1
    /\ \A c \in WfFactories : Count("dispose", c) = 1
    /\ wval = ApplyValue(DrawValue)

\* C36: with ignored_failed as the gatherer, what draw/apply returned holds
\* the value of every unit of work of the call that completed successfully,
\* whenever the unit completed: a handle that was not done when the gatherer
\* came to it was waited for.
C36_IgnoredFailedWaitsForUnits ==
    (kind \in Sources \cup Processors /\ gfn = "ignored_failed"
        /\ pc = "idle" /\ outcome.type = "returned")
    => \A j \in 1..Len(GFutures) :
          GFutures[j].st = "ok"
            => \E i \in 1..Len(outcome.val) : outcome.val[i] = GFutures[j].val

\* C37: on a composite that is not disposed and gathers fail-fast, a call of
\* draw/apply that has submitted its units of work eventually returns or
\* raises, when the pool's workers and the roles' operations make progress.
C37_CallEventuallyEnds ==
    (pc \in {"gather", "exec_exit"} /\ gfn \in FailFast /\ ~is_disposed)
        ~> (pc = "idle" /\ outcome.type \in {"returned", "raised"})

\* C37 witness: the last apply of a processor that was never disposed has
\* returned the values of all its units of work, and every unit is done
C37_Witness ==
    /\ kind \in Processors /\ gfn \in FailFast /\ ~is_disposed /\ pc = "idle"
    /\ calls = MaxCalls /\ outcome.type = "returned"
    /\ Len(outcome.val) = NumRoles
    /\ \A j \in 1..Len(futures) : done(futures[j])

\* What a factory of definition d supplies when it is invoked: the
\* registered factories it invokes and the composite factory it hands their
\* components to.
Supplies(d, k) ==
    LET f == bdefs[d][k]
    IN IF f.by = "entry" THEN [with |-> "none", ids |-> <<f.id>>]
       ELSE IF f.by = "composite" THEN [with |-> bcomposite[k], ids |-> Held(d, k)]
       ELSE [with |-> "none", ids |-> <<>>]

\* C38: registering a component, clearing the factories of a kind or
\* replacing a composite factory leaves what the factories of every
\* definition built before supply as it was.
C38_DefinitionIndependentOfBuilder ==
    [][(bop'.name \in {"register", "clear", "composite"})
          => \A d \in 1..Len(bdefs) : \A k \in WfFactories :
                Supplies(d, k)' = Supplies(d, k)]_vars

====
